---- MODULE Spec2Model ----
(***************************************************************************)
(* Model of abp/filters/renderer.py: rendering of a filter list from       *)
(* fragments.  render_filterlist() resolves the top-level fragment, wraps  *)
(* it in a chain of lazy generators (_process_includes,                    *)
(* _process_timestamps, _insert_version, _remove_duplicates,               *)
(* _insert_checksum, _validate) and hands the resulting iterator to a      *)
(* consumer, who pulls one line per next().                                *)
(*                                                                         *)
(* Strings that the code takes apart or puts together (fragment names,     *)
(* comment texts, messages, serialised lines) are sequences of tokens.     *)
(***************************************************************************)
EXTENDS Naturals, Sequences, FiniteSets

\* ------------------------------------------------------------------ bounds
\* Most lines of a top-level fragment behind its header.
MaxLen == 2
\* Longest included fragment, in lines.
MaxInc == 2
\* Clock readings are 0..MaxClock (minutes).
MaxClock == 1

\* ------------------------------------------------------- sequence helpers
Last(s) == s[Len(s)]

Front(s) == SubSeq(s, 1, Len(s) - 1)

Reverse(s) == [i \in 1..Len(s) |-> s[Len(s) + 1 - i]]

Contains(s, x) == \E i \in 1..Len(s) : s[i] = x

NoDuplicates(s) == \A i, j \in 1..Len(s) : s[i] = s[j] => i = j

IsPrefix(s, t) == Len(s) <= Len(t) /\ SubSeq(t, 1, Len(s)) = s

RECURSIVE Flatten(_)
Flatten(ss) == IF ss = <<>> THEN <<>> ELSE Head(ss) \o Flatten(Tail(ss))

SeqsUpTo(S, n) == UNION {[1..k -> S] : k \in 0..n}

\* The element of a set of one element.
Only(S) == CHOOSE x \in S : TRUE

\* ------------------------------------------------------------------ lines
\* A parsed line: its type, the metadata key, the text (metadata value,
\* comment text, rule text) and the include target.
Line(type, key, text, target) ==
    [type |-> type, key |-> key, text |-> text, target |-> target]

Header == Line("header", "", <<"Adblock Plus 2.0">>, <<>>)

Metadata(key, value) == Line("metadata", key, value, <<>>)

Comment(text) == Line("comment", "", text, <<>>)

Include(target) == Line("include", "", <<>>, target)

EmptyLine == Line("emptyline", "", <<>>, <<>>)

Rule(text) == Line("rule", "", text, <<>>)

\* A line of fragment text the parser rejects when it reaches it.
BadLine == Line("bad", "", <<"[[">>, <<>>)

\* Canonical serialisation of a line.
ToString(line) ==
    CASE line.type = "header" -> <<"[">> \o line.text \o <<"]">>
      [] line.type = "metadata" -> <<"! ", line.key, ": ">> \o line.text
      [] line.type = "comment" -> <<"! ">> \o line.text
      [] line.type = "include" -> <<"%include ">> \o line.target \o <<"%">>
      [] line.type = "emptyline" -> <<>>
      [] OTHER -> line.text

\* ------------------------------------------------------------- exceptions
Exc(type, error, stack, str) ==
    [type |-> type, error |-> error, stack |-> stack, str |-> str]

NoExc == Exc("none", <<>>, <<>>, <<>>)

Quoted(name) == <<"'">> \o name \o <<"'">>

RECURSIVE JoinFrom(_)
JoinFrom(names) ==
    IF names = <<>> THEN <<>>
    ELSE IF Len(names) = 1 THEN Quoted(Head(names))
    ELSE Quoted(Head(names)) \o <<" from ">> \o JoinFrom(Tail(names))

\* IncludeError(error, stack): the message names the stack innermost first.
IncludeError(error, stack) ==
    LET stack_str == JoinFrom(Reverse(stack))
    IN Exc("IncludeError", error, stack,
           IF stack_str # <<>>
           THEN error \o <<" when including ">> \o stack_str
           ELSE error)

MissingHeader ==
    Exc("MissingHeader", <<"No header found at the beginning of the input.">>,
        <<>>, <<"No header found at the beginning of the input.">>)

NotFound(name_in_source) ==
    Exc("NotFound", <<"Not found: ">> \o name_in_source, <<>>,
        <<"Not found: ">> \o name_in_source)

ParseError(line) ==
    Exc("ParseError", <<"Can't parse: ">> \o line.text, <<>>,
        <<"Can't parse: ">> \o line.text)

\* next() on an exhausted iterator.
StopIteration == Exc("StopIteration", <<>>, <<>>, <<>>)

LoopMsg == <<"Include loop encountered">>

UnknownSourceMsg(source_name) == <<"Unknown source: ">> \o Quoted(source_name)

SourceAbsentMsg(name) == <<"Source name is absent in: ">> \o Quoted(name)

\* The exceptions "except (NotFound, ValueError)" catches; the parser's
\* error is a ValueError.
ParseErrorIsValueError == TRUE

\* A handler that catches every exception.
IsCaughtAny(exc) == TRUE

IsCaught(exc) ==
    \/ exc.type = "NotFound"
    \/ exc.type = "ParseError" /\ ParseErrorIsValueError

\* ---------------------------------------------------------------- sources
\* A source object; None stands for "no source".
Source(id, is_inheritable) == [id |-> id, is_inheritable |-> is_inheritable]

None == Source("None", FALSE)

SrcS == Source("s", TRUE)

SrcT == Source("t", FALSE)

\* What source.get(name_in_source) finds: the fragment's lines, or nothing.
Fragment(lines) == [present |-> TRUE, lines |-> lines]

Absent == [present |-> FALSE, lines |-> <<>>]

\* ------------------------------------------------------------------ names
HasColon(name) == Contains(name, ":")

ColonAt(name) ==
    CHOOSE i \in 1..Len(name) :
        name[i] = ":" /\ \A j \in 1..(i - 1) : name[j] # ":"

\* name.split(':', 1)
SplitName(name) ==
    <<SubSeq(name, 1, ColonAt(name) - 1),
      SubSeq(name, ColonAt(name) + 1, Len(name))>>

\* source.get(name_in_source) followed by parse_filterlist(): the lines are
\* parsed one by one as they are iterated, the lookup fails at once.
SourceGet(store, source, name_in_source) ==
    LET key == <<source.id, name_in_source>>
    IN IF key \in DOMAIN store /\ store[key].present
       THEN [exc |-> NoExc, lines |-> store[key].lines]
       ELSE [exc |-> NotFound(name_in_source), lines |-> <<>>]

\* A resolver that falls back on the default source when the qualifier is
\* not a key of sources.
GetAndParseFragmentFallback(name, sources, default_source, include_stack, store) ==
    LET qualified == HasColon(name)
        name_in_source == IF qualified THEN SplitName(name)[2] ELSE name
        source == IF qualified /\ SplitName(name)[1] \in DOMAIN sources
                  THEN sources[SplitName(name)[1]] ELSE default_source
        res == SourceGet(store, source, name_in_source)
    IN IF source = None
       THEN [exc |-> IncludeError(SourceAbsentMsg(name), include_stack),
             lines |-> <<>>, inherited |-> None, got |-> <<>>]
       ELSE [exc |-> res.exc, lines |-> res.lines,
             inherited |-> IF source.is_inheritable THEN source ELSE None,
             got |-> <<<<source.id, name_in_source>>>>]

\* _get_and_parse_fragment: the parsed lines and the source its includes
\* inherit, or the exception raised.  got is the lookup made, if any.
GetAndParseFragment(name, sources, default_source, include_stack, store) ==
    LET qualified == HasColon(name)
        source_name == IF qualified THEN SplitName(name)[1] ELSE <<>>
        name_in_source == IF qualified THEN SplitName(name)[2] ELSE name
        known == ~qualified \/ source_name \in DOMAIN sources
        source == IF ~qualified THEN default_source
                  ELSE IF known THEN sources[source_name] ELSE None
        res == SourceGet(store, source, name_in_source)
    IN IF ~known
       THEN [exc |-> IncludeError(UnknownSourceMsg(source_name), include_stack),
             lines |-> <<>>, inherited |-> None, got |-> <<>>]
       ELSE IF source = None
       THEN [exc |-> IncludeError(SourceAbsentMsg(name), include_stack),
             lines |-> <<>>, inherited |-> None, got |-> <<>>]
       ELSE [exc |-> res.exc, lines |-> res.lines,
             inherited |-> IF source.is_inheritable THEN source ELSE None,
             got |-> <<<<source.id, name_in_source>>>>]

\* The list "include_stack=[]" is evaluated to when the function is defined:
\* one list object, handed to every call that passes no include stack.
DefaultIncludeStack == <<>>

\* A resolver that records the name in the list it was handed.
IncludeStackAppended(include_stack, name) == include_stack \o <<name>>

\* What a call of _get_and_parse_fragment leaves in the list it was handed
\* as include_stack: it only passes it on to IncludeError, which reads it.
IncludeStackAfter(include_stack, name) == include_stack

\* ------------------------------------------------------ _process_includes
\* One activation of the _process_includes generator: the lines it has not
\* read yet, its default source and its include stack.
Frame(lines, default_source, include_stack) ==
    [lines |-> lines, default_source |-> default_source,
     include_stack |-> include_stack]

BoundaryComment(name) == Comment(<<"*** ">> \o name \o <<" ***">>)

Yield(line, frames, fetched) ==
    [kind |-> "line", line |-> line, exc |-> NoExc,
     frames |-> frames, fetched |-> fetched]

Raise(exc, fetched) ==
    [kind |-> "raise", line |-> EmptyLine, exc |-> exc,
     frames |-> <<>>, fetched |-> fetched]

Exhausted(fetched) ==
    [kind |-> "end", line |-> EmptyLine, exc |-> NoExc,
     frames |-> <<>>, fetched |-> fetched]

\* The exception exc leaves the innermost of the activations frames: each
\* enclosing activation iterates the one inside it within its try block, for
\* the include whose stack is the inner activation's, and re-raises what it
\* catches as an IncludeError; the outermost is iterated outside any try.
RECURSIVE Propagate(_, _)
Propagate(exc, frames) ==
    IF Len(frames) <= 1 THEN exc
    ELSE Propagate(IF IsCaught(exc)
                   THEN IncludeError(exc.str, Last(frames).include_stack)
                   ELSE exc,
                   Front(frames))

\* A loop check that forgets the top-level name.
LoopNamesSkipTop(parent_include_stack) == Tail(parent_include_stack)

\* A loop check that leaves out the name of the fragment being read.
LoopNamesLate(parent_include_stack) == Front(parent_include_stack)

\* The names an activation refuses to include again.
LoopNames(parent_include_stack) == parent_include_stack

\* An include that hands the enclosing default source down when the
\* fragment's own source is not inheritable.
IncludedLeaksDefault(got, name, include_stack, outer, rest, fetched) ==
    IF got.exc.type = "none"
    THEN Yield(BoundaryComment(name),
               outer \o <<rest, Frame(got.lines,
                                      IF got.inherited = None
                                      THEN rest.default_source ELSE got.inherited,
                                      include_stack)>>,
               fetched \o got.got)
    ELSE Raise(Propagate(IF IsCaught(got.exc)
                         THEN IncludeError(got.exc.str, include_stack)
                         ELSE got.exc,
                         outer \o <<rest>>),
               fetched \o got.got)

\* An include that appends the name to the enclosing activation's own
\* stack instead of building a new one.
IncludedSharesStack(got, name, include_stack, outer, rest, fetched) ==
    IF got.exc.type = "none"
    THEN Yield(BoundaryComment(name),
               outer \o <<[rest EXCEPT !.include_stack = include_stack],
                          Frame(got.lines, got.inherited, include_stack)>>,
               fetched \o got.got)
    ELSE Raise(Propagate(IF IsCaught(got.exc)
                         THEN IncludeError(got.exc.str, include_stack)
                         ELSE got.exc,
                         outer \o <<rest>>),
               fetched \o got.got)

\* try: _get_and_parse_fragment(...) ... except (NotFound, ValueError): what
\* an include of name does when the lookup returned got.
Included(got, name, include_stack, outer, rest, fetched) ==
    IF got.exc.type = "none"
    THEN Yield(BoundaryComment(name),
               outer \o <<rest, Frame(got.lines, got.inherited, include_stack)>>,
               fetched \o got.got)
    ELSE Raise(Propagate(IF IsCaught(got.exc)
                         THEN IncludeError(got.exc.str, include_stack)
                         ELSE got.exc,
                         outer \o <<rest>>),
               fetched \o got.got)

\* The body of the loop "for line in lines" for the next line of the
\* activation f; outer are the activations that enclose it.
ReadLine(f, outer, fetched, sources, store) ==
    LET line == Head(f.lines)
        rest == Frame(Tail(f.lines), f.default_source, f.include_stack)
        name == line.target
        include_stack == f.include_stack \o <<name>>
    IN CASE line.type = "bad" ->
              \* raised where the activation iterates its lines
              Raise(Propagate(ParseError(line), outer \o <<f>>), fetched)
         [] line.type = "include" ->
              IF Contains(LoopNames(f.include_stack), name)
              THEN Raise(Propagate(IncludeError(LoopMsg, include_stack),
                                   outer \o <<f>>),
                         fetched)
              ELSE Only({Included(got, name, include_stack, outer, rest, fetched) :
                           got \in {GetAndParseFragment(name, sources,
                                                        f.default_source,
                                                        include_stack, store)}})
         [] OTHER -> Yield(line, outer \o <<rest>>, fetched)

\* One next() on the outermost _process_includes generator.  frames lists
\* the nested activations, outermost first; the innermost one runs, and an
\* activation that has no line left returns to the one enclosing it.
RECURSIVE PullIncludes(_, _, _, _)
PullIncludes(frames, fetched, sources, store) ==
    IF frames = <<>> THEN Exhausted(fetched)
    ELSE IF Last(frames).lines = <<>>
    THEN PullIncludes(Front(frames), fetched, sources, store)
    ELSE ReadLine(Last(frames), Front(frames), fetched, sources, store)

\* ------------------------------------------------------------------ clock
Digits == <<"0", "1", "2", "3", "4", "5", "6", "7", "8", "9">>

TwoDigits(n) == <<Digits[(n \div 10) + 1], Digits[(n % 10) + 1]>>

\* time.strftime('%d %b %Y %H:%M UTC', time.gmtime()) at clock reading t
StrfTimestamp(t) == <<"01 Jan 2017 00:">> \o TwoDigits(t) \o <<" UTC">>

\* time.strftime('%Y%m%d%H%M', time.gmtime()) at clock reading t
StrfVersion(t) == <<"2017010100">> \o TwoDigits(t)

\* ---------------------------------------------------- _process_timestamps
TimestampMarker == "%timestamp%"

\* text.replace('%timestamp%', timestamp)
ReplaceMarker(text, timestamp) ==
    Flatten([i \in 1..Len(text) |->
                IF text[i] = TimestampMarker THEN timestamp ELSE <<text[i]>>])

ProcessTimestamp(line, t) ==
    IF line.type = "comment" /\ Contains(line.text, TimestampMarker)
    THEN Comment(ReplaceMarker(line.text, StrfTimestamp(t)))
    ELSE line

\* ------------------------------------------------------------ the pipeline
\* The state of the generators below _insert_checksum: the activations of
\* _process_includes, the lookups made so far, the items itertools.chain
\* still holds in _insert_version, the keys seen and the index reached by
\* _remove_duplicates, and the lines _process_includes has yielded.
Pipe(fr, fe, vb, se, ix, ex) ==
    [frames |-> fr, fetched |-> fe, vbuf |-> vb, seen |-> se, i |-> ix,
     expanded |-> ex]

Result(kind, line, exc, p) == [kind |-> kind, line |-> line, exc |-> exc, p |-> p]

\* What _process_timestamps makes of the outcome r of _process_includes.
Timestamped(r, p, t) ==
    LET q == [p EXCEPT !.frames = r.frames, !.fetched = r.fetched]
    IN IF r.kind = "line"
       THEN Result("line", ProcessTimestamp(r.line, t), NoExc,
                   [q EXCEPT !.expanded = @ \o <<r.line>>])
       ELSE Result(r.kind, EmptyLine, r.exc, q)

\* One next() on _process_timestamps(_process_includes(...)).
PullTimestamps(p, t, sources, store) ==
    Only({Timestamped(r, p, t) :
            r \in {PullIncludes(p.frames, p.fetched, sources, store)}})

VersionLine(t) == Metadata("Version", StrfVersion(t))

\* A version line put in front of the first line.
InsertVersionFirst(first_line, t) == <<VersionLine(t), first_line>>

\* _insert_version: what itertools.chain holds in front of the rest.
InsertVersion(first_line, t) == <<first_line, VersionLine(t)>>

\* What a chain that reads one line ahead makes of the outcome r of its
\* input: it hands on the line and keeps the one behind it.
ReadAhead(r, r2) ==
    IF r.kind = "line" /\ r2.kind = "line"
    THEN Result("line", r.line, NoExc, [r2.p EXCEPT !.vbuf = <<r2.line>>])
    ELSE r

\* A chain that has the line behind the one it hands on read already.
PullVersionAhead(p, t, sources, store) ==
    IF p.vbuf # <<>> /\ p.expanded # <<>> /\ Len(p.vbuf) = 1
    THEN ReadAhead(Result("line", Head(p.vbuf), NoExc, [p EXCEPT !.vbuf = <<>>]),
                   PullTimestamps([p EXCEPT !.vbuf = <<>>], t, sources, store))
    ELSE IF p.vbuf # <<>>
    THEN Result("line", Head(p.vbuf), NoExc, [p EXCEPT !.vbuf = Tail(@)])
    ELSE PullTimestamps(p, t, sources, store)

\* One next() on the chain _insert_version returned.
PullVersion(p, t, sources, store) ==
    IF p.vbuf # <<>>
    THEN Result("line", Head(p.vbuf), NoExc, [p EXCEPT !.vbuf = Tail(@)])
    ELSE PullTimestamps(p, t, sources, store)

\* A filter that takes the Version key for seen from the start.
InitialSeenVersion == {"Checksum", "Version"}

\* The keys _remove_duplicates starts with.
InitialSeen == {"Checksum"}

\* A filter that forgets to drop the headers after the first line.
KeepsEveryHeader(line, i, seen) ==
    IF line.type = "metadata" THEN line.key \notin seen ELSE TRUE

\* Whether _remove_duplicates yields the line at index i.
Keeps(line, i, seen) ==
    CASE line.type = "metadata" -> line.key \notin seen
      [] line.type = "header" -> i = 0
      [] OTHER -> TRUE

\* A filter that never records a key.
SeenAfterForgets(line, seen) == seen

SeenAfter(line, seen) ==
    IF line.type = "metadata" THEN seen \cup {line.key} ELSE seen

RECURSIVE PullDuplicates(_, _, _, _)

\* What _remove_duplicates makes of the outcome r of its input at index p.i:
\* it yields the line or reads on.
Deduplicated(r, p, t, sources, store) ==
    LET q == [r.p EXCEPT !.i = @ + 1, !.seen = SeenAfter(r.line, @)]
    IN IF r.kind # "line" THEN r
       ELSE IF Keeps(r.line, p.i, p.seen) THEN Result("line", r.line, NoExc, q)
       ELSE PullDuplicates(q, t, sources, store)

\* One next() on _remove_duplicates: reads on until a line is kept.
PullDuplicates(p, t, sources, store) ==
    Only({Deduplicated(r, p, t, sources, store) :
            r \in {PullVersion(p, t, sources, store)}})

\* A digest that is also fed the empty lines.
Md5UpdateEveryLine(md5, line) == md5 \o ToString(line) \o <<"\n">>

\* md5sum.update(line.to_string().encode('utf-8') + b'\n'); the digest is
\* kept as the bytes fed to it.
Md5Update(md5, line) ==
    IF line.type # "emptyline" THEN md5 \o ToString(line) \o <<"\n">> ELSE md5

\* base64.b64encode(md5sum.digest()).rstrip(b'=')
ChecksumValue(md5) == <<"b64(md5(">> \o md5 \o <<"))">>

ChecksumLine(md5) == Metadata("Checksum", ChecksumValue(md5))

\* What _insert_checksum makes of the outcome r of _remove_duplicates.
Checksummed(r, md5) ==
    CASE r.kind = "line" ->
           [kind |-> "line", line |-> r.line, exc |-> NoExc, p |-> r.p,
            md5 |-> Md5Update(md5, r.line), done |-> FALSE]
      [] r.kind = "end" ->
           [kind |-> "line", line |-> ChecksumLine(md5), exc |-> NoExc,
            p |-> r.p, md5 |-> md5, done |-> TRUE]
      [] OTHER ->
           [kind |-> "raise", line |-> EmptyLine, exc |-> r.exc,
            p |-> r.p, md5 |-> md5, done |-> TRUE]

\* One next() on _insert_checksum.  done: the generator has returned.
PullChecksum(p, md5, done, t, sources, store) ==
    IF done
    THEN [kind |-> "end", line |-> EmptyLine, exc |-> NoExc, p |-> p,
          md5 |-> md5, done |-> TRUE]
    ELSE Only({Checksummed(r, md5) : r \in {PullDuplicates(p, t, sources, store)}})

\* A validation that accepts any first line.
ValidateNothing(first_line) == NoExc

\* _validate: the exception the first line of the result raises, if any.
ValidateFirst(first_line) ==
    IF first_line.type # "header" THEN MissingHeader ELSE NoExc

\* -------------------------------------------------------- render_filterlist
\* render_filterlist raises exc.
Failed(exc, p) ==
    [exc |-> exc, p |-> [p EXCEPT !.frames = <<>>], md5 |-> <<>>,
     done |-> TRUE, valbuf |-> <<>>]

\* _validate: r2 is the outcome of the first next() on _insert_checksum.
Validated(r2) ==
    IF r2.kind = "end" THEN Failed(StopIteration, r2.p)
    ELSE IF r2.kind = "raise" THEN Failed(r2.exc, r2.p)
    ELSE IF ValidateFirst(r2.line).type # "none"
    THEN Failed(ValidateFirst(r2.line), r2.p)
    ELSE [exc |-> NoExc, p |-> r2.p, md5 |-> r2.md5, done |-> r2.done,
          valbuf |-> <<r2.line>>]

\* _insert_version and the stages behind it: r1 is the outcome of the first
\* next() on _process_timestamps.
Versioned(r1, t, sources, store) ==
    IF r1.kind = "end" THEN Failed(StopIteration, r1.p)
    ELSE IF r1.kind = "raise" THEN Failed(r1.exc, r1.p)
    ELSE Validated(PullChecksum([r1.p EXCEPT !.vbuf = InsertVersion(r1.line, t)],
                                <<>>, FALSE, t, sources, store))

\* The stages built on the top-level fragment g.
Resolved(g, name, sources, t, store) ==
    IF g.exc.type # "none"
    THEN Failed(g.exc, Pipe(<<>>, g.got, <<>>, InitialSeen, 0, <<>>))
    ELSE Versioned(PullTimestamps(Pipe(<<Frame(g.lines, g.inherited, <<name>>)>>,
                                       g.got, <<>>, InitialSeen, 0, <<>>),
                                  t, sources, store),
                   t, sources, store)

\* What the call render_filterlist(name, sources, top_source) does before it
\* returns: it resolves the top-level fragment, builds the generators, reads
\* the first line in _insert_version and the first line in _validate.
RenderFilterlist(name, sources, top_source, t, store, include_stack) ==
    Resolved(GetAndParseFragment(name, sources, top_source,
                                 include_stack, store),
             name, sources, t, store)

\* ------------------------------------------------------------------ inputs
NameA == <<"a">>

NameB == <<"b">>

NameSA == <<"s", ":", "a">>

NameSB == <<"s", ":", "b">>

NameTB == <<"t", ":", "b">>

NameTA == <<"t", ":", "a">>

NameXB == <<"x", ":", "b">>

NameMain == <<"main">>

NameAds == <<"ads">>

SrcDefault == Source("default", TRUE)

\* The same source t, registered as inheritable.
SrcTInh == Source("t", TRUE)

\* The sources mappings handed to render_filterlist.
SourcesMap == [n \in {<<"s">>, <<"t">>} |-> IF n = <<"s">> THEN SrcS ELSE SrcT]

SourcesMapInh == [n \in {<<"s">>, <<"t">>} |-> IF n = <<"s">> THEN SrcS ELSE SrcTInh]

SourcesMapDefault == [n \in {<<"default">>} |-> SrcDefault]

\* Fragments are drawn from two families.  In the first the lines exercise
\* the transforms (metadata, headers, timestamps, empty lines) around one
\* include; in the second they exercise include resolution (loops, qualified
\* names, unknown and non-inheritable sources, unparsable lines).
TopLinesP ==
    {Header, Metadata("Foo", <<"1">>), Metadata("Checksum", <<"old">>),
     Metadata("Version", <<"1">>),
     Comment(<<TimestampMarker>>), EmptyLine, Rule(<<"||x^">>), Include(NameB)}

IncLinesP ==
    {Header, Metadata("Foo", <<"2">>), Metadata("Version", <<"old">>),
     Metadata("Checksum", <<"old">>)}

TopLinesI ==
    {BadLine, Include(NameA), Include(NameB), Include(NameTB), Include(NameXB)}

IncLinesI ==
    {Rule(<<"||y^">>), BadLine, Include(NameA), Include(NameB), Include(NameSB)}

\* An included fragment: missing, or up to n lines.
Fragments(lines, n) == {Absent} \cup {Fragment(l) : l \in SeqsUpTo(lines, n)}

\* A top-level fragment: a header followed by up to n lines, or one that is
\* missing, empty or a single other line (render_filterlist reads nothing
\* behind a first line that is not a header).
TopFragments(lines, n) ==
    {Fragment(<<Header>> \o l) : l \in SeqsUpTo(lines, n)}
    \cup {Absent, Fragment(<<>>)}
    \cup {Fragment(<<l>>) : l \in lines \ {Header}}

\* The fragment "b" of source t; its fragment "a" is one rule.
OtherFragments ==
    {Fragment(<<Include(NameB)>>), Fragment(<<Include(NameA)>>),
     Fragment(<<Include(NameSB)>>), Fragment(<<Rule(<<"||t^">>)>>)}

StoreOf(fa, fb, ft) ==
    [k \in {<<"s", NameA>>, <<"s", NameB>>, <<"t", NameA>>, <<"t", NameB>>} |->
        CASE k = <<"s", NameA>> -> fa
          [] k = <<"s", NameB>> -> fb
          [] k = <<"t", NameA>> -> Fragment(<<Rule(<<"||t^">>)>>)
          [] OTHER -> ft]

\* The fragment "a" of source t included twice: by the top-level fragment
\* as 't:a', and by the fragment "b" of source t as 'a'.
TwoParentsStore ==
    StoreOf(Fragment(<<Header, Include(NameTA), Include(NameTB)>>),
            Absent, Fragment(<<Include(NameA)>>))

\* Source "default" holding "main" and "ads".
ScenarioStore ==
    [k \in {<<"default", NameMain>>, <<"default", NameAds>>} |->
        IF k = <<"default", NameMain>>
        THEN Fragment(<<Header, Include(NameAds)>>)
        ELSE Fragment(<<Comment(<<TimestampMarker>>), Metadata("Foo", <<"1">>)>>)]

Call(name, sources, top_source) ==
    [name |-> name, sources |-> sources, top_source |-> top_source]

ScenarioCall == Call(NameMain, SourcesMapDefault, SrcDefault)

\* The arguments render_filterlist is called with.
Calls ==
    {Call(NameA, SourcesMap, SrcS), Call(NameA, SourcesMapInh, SrcS),
     Call(NameSA, SourcesMap, None), Call(NameA, SourcesMap, None),
     Call(NameXB, SourcesMap, SrcS), Call(NameTB, SourcesMap, SrcS),
     ScenarioCall}

\* ------------------------------------------------------------------- state
VARIABLES
    store,    \* the fragments the sources hold
    call,     \* the arguments of render_filterlist, once called
    pc,       \* "idle", "open" (iterator returned), "exhausted", "failed", "stopped"
    pipe,     \* the generators below _insert_checksum
    md5,      \* the bytes fed to md5sum in _insert_checksum
    done,     \* _insert_checksum has returned
    valbuf,   \* the item itertools.chain still holds in _validate
    out,      \* the lines delivered to the consumer
    err,      \* the exception that reached the caller
    now,      \* the clock
    default_include_stack,  \* the default list of _get_and_parse_fragment
    first_render  \* the first render that ran to its end, once another began

vars == <<store, call, pc, pipe, md5, done, valbuf, out, err, now,
          default_include_stack, first_render>>

NoCall == Call(<<>>, SourcesMap, None)

\* What a render that ran to its end was called with, delivered and raised.
Rendered(c, lines, exc) == [call |-> c, out |-> lines, err |-> exc]

NoRender == Rendered(NoCall, <<>>, NoExc)

\* Before the call, with the sources holding the fragments given and the
\* clock reading t.
InitAt(fragments, t) ==
    /\ store = fragments
    /\ call = NoCall
    /\ pc = "idle"
    /\ pipe = Pipe(<<>>, <<>>, <<>>, InitialSeen, 0, <<>>)
    /\ md5 = <<>>
    /\ done = FALSE
    /\ valbuf = <<>>
    /\ out = <<>>
    /\ err = NoExc
    /\ now = t
    /\ default_include_stack = DefaultIncludeStack
    /\ first_render = NoRender

InitWith(fragments) == InitAt(fragments, 0)

Init ==
    \/ \E fa \in TopFragments(TopLinesP, MaxLen), fb \in Fragments(IncLinesP, MaxInc) :
          InitWith(StoreOf(fa, fb, Fragment(<<Include(NameB)>>)))
    \/ \E fa \in TopFragments(TopLinesI, MaxLen), fb \in Fragments(IncLinesI, MaxInc),
          ft \in OtherFragments :
          InitWith(StoreOf(fa, fb, ft))
    \/ InitWith(ScenarioStore)
    \/ InitWith(TwoParentsStore)

\* render_filterlist returns the iterator or raises: r is its outcome.
Returned(r) ==
    /\ pc' = IF r.exc.type = "none" THEN "open" ELSE "failed"
    /\ err' = r.exc
    /\ pipe' = r.p
    /\ md5' = r.md5
    /\ done' = r.done
    /\ valbuf' = r.valbuf

\* lines = render_filterlist(name, sources, top_source)
Render(name, sources, top_source) ==
    /\ pc = "idle"
    /\ call' = Call(name, sources, top_source)
    /\ Returned(RenderFilterlist(name, sources, top_source, now, store,
                                 default_include_stack))
    /\ default_include_stack' = IncludeStackAfter(default_include_stack, name)
    /\ UNCHANGED <<store, out, now, first_render>>

\* next(lines) has the outcome r of _insert_checksum.
Delivered(r) ==
    /\ pipe' = IF r.kind = "raise" THEN [r.p EXCEPT !.frames = <<>>] ELSE r.p
    /\ md5' = r.md5
    /\ done' = r.done
    /\ out' = IF r.kind = "line" THEN out \o <<r.line>> ELSE out
    /\ err' = r.exc
    /\ pc' = CASE r.kind = "line" -> "open"
               [] r.kind = "end" -> "exhausted"
               [] OTHER -> "failed"

\* next(lines) by the consumer: the line _validate holds, then the lines of
\* _insert_checksum.
NextLine ==
    /\ pc = "open"
    /\ IF valbuf # <<>>
       THEN /\ out' = out \o <<Head(valbuf)>>
            /\ valbuf' = Tail(valbuf)
            /\ UNCHANGED <<pc, pipe, md5, done, err>>
       ELSE /\ valbuf' = valbuf
            /\ \E r \in {PullChecksum(pipe, md5, done, now, call.sources, store)} :
                  Delivered(r)
    /\ UNCHANGED <<store, call, now, default_include_stack, first_render>>

\* The consumer drops the iterator without reading on.
Stop ==
    /\ pc = "open"
    /\ pc' = "stopped"
    /\ UNCHANGED <<store, call, pipe, md5, done, valbuf, out, err, now,
                   default_include_stack, first_render>>

\* A minute passes.
Tick ==
    /\ pc = "open"
    /\ now < MaxClock
    /\ now' = now + 1
    /\ UNCHANGED <<store, call, pc, pipe, md5, done, valbuf, out, err,
                   default_include_stack, first_render>>

Next ==
    \/ \E c \in Calls : Render(c.name, c.sources, c.top_source)
    \/ NextLine
    \/ Stop
    \/ Tick

Spec == Init /\ [][Next]_vars

\* ---------------------------------------------- a consumer that reads on
\* Top-level fragments and fragments "b" of source s that include one
\* another: in a cycle, themselves, through the other source, or not at all.
LoopTops ==
    {Fragment(<<Header, Include(NameB), Rule(<<"||x^">>)>>),
     Fragment(<<Header, Include(NameA)>>),
     Fragment(<<Header, Include(NameTB), Include(NameB)>>)}

LoopIncluded ==
    {Fragment(<<Include(NameA)>>),
     Fragment(<<Include(NameB)>>),
     Fragment(<<Rule(<<"||y^">>), Include(NameSB)>>),
     Fragment(<<Include(NameTB), Rule(<<"||y^">>)>>),
     Fragment(<<Rule(<<"||y^">>)>>)}

InitLoops ==
    \E fa \in LoopTops, fb \in LoopIncluded, ft \in OtherFragments :
        InitWith(StoreOf(fa, fb, ft))

\* The consumer calls next() for as long as the iterator is open, unless it
\* drops the iterator.
FairSpec == InitLoops /\ [][Next]_vars /\ WF_vars(NextLine)

\* ------------------------------------------------- one render after another
\* The top-level fragments and the fragments "b" of source s that renders are
\* repeated on: renders that succeed, and renders that fail at the call and
\* behind the first line.
AgainTops ==
    {Fragment(<<Header, Include(NameB), Comment(<<TimestampMarker>>)>>),
     Fragment(<<Header, Metadata("Foo", <<"1">>), Include(NameXB)>>),
     Fragment(<<Header, BadLine>>),
     Fragment(<<Include(NameA)>>),
     Absent}

AgainIncluded ==
    {Fragment(<<Rule(<<"||y^">>), Metadata("Foo", <<"2">>)>>),
     Fragment(<<Include(NameA)>>),
     Fragment(<<Include(NameSB)>>),
     Absent}

\* The clock is held at one reading.
InitAgain ==
    \E fa \in AgainTops, fb \in AgainIncluded, ft \in OtherFragments,
       t \in 0..MaxClock :
        InitAt(StoreOf(fa, fb, ft), t)

\* The caller is through with the iterator and turns to the next render;
\* the first render that ran to its end is remembered, or a later one.
Again ==
    /\ pc \in {"exhausted", "failed", "stopped"}
    /\ first_render' \in
          {first_render} \cup
          (IF first_render = NoRender /\ pc # "stopped"
           THEN {Rendered(call, out, err)} ELSE {})
    /\ call' = NoCall
    /\ pc' = "idle"
    /\ pipe' = Pipe(<<>>, <<>>, <<>>, InitialSeen, 0, <<>>)
    /\ md5' = <<>>
    /\ done' = FALSE
    /\ valbuf' = <<>>
    /\ out' = <<>>
    /\ err' = NoExc
    /\ UNCHANGED <<store, now, default_include_stack>>

NextAgain ==
    \/ \E c \in Calls : Render(c.name, c.sources, c.top_source)
    \/ NextLine
    \/ Stop
    \/ Again

SpecAgain == InitAgain /\ [][NextAgain]_vars

\* ================================================================= claims
\* The activations of _process_includes that still have lines to read; the
\* last of them reads next.
RECURSIVE ActiveFrames(_)
ActiveFrames(frames) ==
    IF frames = <<>> THEN <<>>
    ELSE IF Last(frames).lines = <<>> THEN ActiveFrames(Front(frames))
    ELSE frames

IsSubSeq(sub, s) ==
    \E i \in 1..(Len(s) + 1 - Len(sub)) : SubSeq(s, i, i + Len(sub) - 1) = sub

\* The next line _process_includes reads is an include of a name that is
\* already on the reading activation's include stack, and nothing is
\* buffered in front of it.
PendingLoop ==
    LET fr == ActiveFrames(pipe.frames)
    IN /\ pc = "open" /\ valbuf = <<>> /\ pipe.vbuf = <<>> /\ ~done
       /\ fr # <<>>
       /\ Head(Last(fr).lines).type = "include"
       /\ Contains(Last(fr).include_stack, Head(Last(fr).lines).target)

PendingLoopStack ==
    LET f == Last(ActiveFrames(pipe.frames))
    IN f.include_stack \o <<Head(f.lines).target>>

\* The names from the first occurrence of the last name of the stack on.
CycleNames(stack) ==
    LET first == CHOOSE i \in 1..Len(stack) :
                     stack[i] = Last(stack) /\ \A j \in 1..(i - 1) : stack[j] # Last(stack)
    IN {stack[k] : k \in first..Len(stack)}

\* The top-level fragment of the call resolves and begins with an include of
\* the top-level name itself.
TopSelfInclude(c) ==
    LET g == GetAndParseFragment(c.name, c.sources, c.top_source,
                                 DefaultIncludeStack, store)
    IN /\ g.exc.type = "none" /\ g.lines # <<>>
       /\ Head(g.lines).type = "include" /\ Head(g.lines).target = c.name

LoopFailure(e, stack) ==
    /\ e.type = "IncludeError"
    /\ e.error = LoopMsg
    /\ e.stack = stack
    /\ \A n \in CycleNames(stack) : IsSubSeq(Quoted(n), e.str)

\* C1: when expansion reaches an include of a name that is already being
\* expanded (A includes B includes A, or a fragment includes itself), the
\* render fails with an IncludeError for an include loop whose trail names
\* every fragment of the cycle, and the fragment is not fetched again.
C1_LoopFails ==
    [][/\ (PendingLoop /\ pc' # "stopped" /\ now' = now)
          => /\ pc' = "failed"
             /\ LoopFailure(err', PendingLoopStack)
             /\ pipe'.fetched = pipe.fetched
             /\ out' = out
       /\ (pc = "idle" /\ pc' # "idle" /\ TopSelfInclude(call'))
          => /\ pc' = "failed"
             /\ LoopFailure(err', <<call'.name, call'.name>>)
             /\ Len(pipe'.fetched) = 1
      ]_vars

\* C1 witness: A includes B, B includes A, and the render has failed on it.
C1_Witness ==
    /\ pc = "failed"
    /\ err.error = LoopMsg
    /\ err.stack = <<NameA, NameB, NameA>>

\* C2: the include stack of every activation of _process_includes starts
\* with the top-level name, grows by one name per nested include and holds
\* no name twice.
C2_StackNoDuplicates ==
    \A i \in 1..Len(pipe.frames) :
        /\ NoDuplicates(pipe.frames[i].include_stack)
        /\ Len(pipe.frames[i].include_stack) = i
        /\ pipe.frames[i].include_stack[1] = call.name
        /\ i > 1 => Front(pipe.frames[i].include_stack)
                        = pipe.frames[i - 1].include_stack

\* C2 witness: three fragments are being expanded, one inside the other.
C2_Witness ==
    /\ pc = "open"
    /\ Len(pipe.frames) = 3
    /\ Last(pipe.frames).lines # <<>>

IsChecksum(line) == line.type = "metadata" /\ line.key = "Checksum"

\* C3 as stated: a render that fails has delivered no line.
C3_NoPartialOutput == pc = "failed" => out = <<>>

\* C3 amended: a failure raised by the call to render_filterlist comes before
\* any line is delivered; a failure raised while the result is iterated is an
\* inclusion or parse failure, it comes after the lines in front of it were
\* delivered (the header first, never the closing Checksum line) and
\* delivers nothing more; a render that ends without failure has delivered
\* a sequence that begins with the header and ends with the Checksum line.
C3_FailureCutsOutput ==
    [][/\ (pc = "idle" /\ pc' = "failed") => out' = <<>>
       /\ (pc = "open" /\ pc' = "failed")
          => /\ out' = out
             /\ out # <<>>
             /\ out[1].type = "header"
             /\ \A i \in 1..Len(out) : ~IsChecksum(out[i])
             /\ err'.type \in {"IncludeError", "ParseError"}
       /\ (pc = "open" /\ pc' = "exhausted")
          => /\ out' = out
             /\ Len(out) >= 3
             /\ out[1].type = "header"
             /\ IsChecksum(Last(out))
      ]_vars

\* C3 witness: the render failed after the consumer had received lines.
C3_Witness == pc = "failed" /\ Len(out) >= 3 /\ err.type = "IncludeError"

\* C4 as stated: every failure is an IncludeError, a parse error or
\* MissingHeader.
C4_OnlyThreeFailures ==
    pc = "failed" => err.type \in {"IncludeError", "ParseError", "MissingHeader"}

\* The top-level fragment as the call resolved it.
TopFragment ==
    GetAndParseFragment(call.name, call.sources, call.top_source,
                        DefaultIncludeStack, store)

\* The call resolved a top-level fragment whose first line parses and is not
\* a header.
TopStartsWithoutHeader ==
    /\ pc # "idle"
    /\ TopFragment.exc.type = "none"
    /\ TopFragment.lines # <<>>
    /\ Head(TopFragment.lines).type
          \in {"comment", "metadata", "rule", "emptyline", "include"}

\* The first line of the top-level fragment is an include that cannot be
\* expanded: it names the top-level fragment itself or does not resolve.
TopIncludeFails ==
    LET first == Head(TopFragment.lines)
    IN /\ first.type = "include"
       /\ \/ first.target = call.name
          \/ GetAndParseFragment(first.target, call.sources,
                                 TopFragment.inherited,
                                 <<call.name, first.target>>, store).exc.type # "none"

\* C5 as stated: a top-level fragment whose first line is not a header makes
\* the render fail with MissingHeader, no line delivered.
C5_AlwaysMissingHeader ==
    TopStartsWithoutHeader
        => pc = "failed" /\ out = <<>> /\ err = MissingHeader

\* C5 amended: a top-level fragment whose first line is not a header makes
\* the render fail with no line delivered: with MissingHeader, except that a
\* first line that is an include which cannot be expanded fails with the
\* IncludeError of that include.
C5_NoHeaderFails ==
    TopStartsWithoutHeader
        => /\ pc = "failed"
           /\ out = <<>>
           /\ IF TopIncludeFails THEN err.type = "IncludeError"
              ELSE err = MissingHeader

\* C5 witness: the first line was an include that expanded, and the render
\* failed with MissingHeader on the boundary comment.
C5_Witness ==
    /\ TopStartsWithoutHeader
    /\ Head(TopFragment.lines).type = "include"
    /\ err = MissingHeader
    /\ Len(pipe.fetched) = 2

\* C6: the lines delivered begin with a header and hold no other header.
C6_OneHeader ==
    out # <<>>
        => /\ out[1].type = "header"
           /\ \A i \in 2..Len(out) : out[i].type # "header"

\* C6 witness: a complete output of a document that had a header after its
\* first line.
C6_Witness ==
    /\ pc = "exhausted"
    /\ \E i \in 2..Len(pipe.expanded) : pipe.expanded[i].type = "header"

IncludesAt(lines) == {i \in 1..Len(lines) : lines[i].type = "include"}

MetaAt(lines, key) ==
    {i \in 1..Len(lines) : lines[i].type = "metadata" /\ lines[i].key = key}

KeysOf(lines) ==
    {lines[i].key : i \in {j \in 1..Len(lines) : lines[j].type = "metadata"}}

FirstOf(S) == CHOOSE i \in S : \A j \in S : i <= j

\* Of the lines with this key in the assembled document, exactly one is in
\* the output, and it is the first.
FirstSurvives(key) ==
    /\ Cardinality(MetaAt(out, key)) = 1
    /\ \A i \in MetaAt(out, key) :
          out[i] = pipe.expanded[FirstOf(MetaAt(pipe.expanded, key))]

\* No Checksum line is in the output before its last line, and the last one
\* is none of the document's.
NoFragmentChecksum ==
    /\ \A i \in 1..(Len(out) - 1) : ~IsChecksum(out[i])
    /\ \A j \in MetaAt(pipe.expanded, "Checksum") : Last(out) # pipe.expanded[j]

\* C7 as stated (the key Checksum is left to its second half): of two or
\* more metadata lines with one key in the assembled document, the first is
\* the one in the output; no Checksum line of a fragment is in the output.
C7_FirstOfEveryKey ==
    pc = "exhausted"
        => /\ \A key \in KeysOf(pipe.expanded) \ {"Checksum"} :
                 Cardinality(MetaAt(pipe.expanded, key)) >= 2 => FirstSurvives(key)
           /\ NoFragmentChecksum

\* C7 amended: for every metadata key other than Version and Checksum, of two
\* or more lines with that key in the assembled document exactly one is in
\* the output, the first in document order; of the Version lines only the
\* one the render inserts as second line is in the output, never one of a
\* fragment; no Checksum line of a fragment is in the output.
C7_FirstOfKeySurvives ==
    pc = "exhausted"
        => /\ \A key \in KeysOf(pipe.expanded) \ {"Checksum", "Version"} :
                 Cardinality(MetaAt(pipe.expanded, key)) >= 2 => FirstSurvives(key)
           /\ MetaAt(out, "Version") = {2}
           /\ \E t \in 0..MaxClock : out[2] = Metadata("Version", StrfVersion(t))
           /\ NoFragmentChecksum

\* C7 witness: the document had two lines for the key Foo with different
\* values, and a Checksum line.
C7_Witness ==
    /\ pc = "exhausted"
    /\ \E i, j \in MetaAt(pipe.expanded, "Foo") :
          i < j /\ pipe.expanded[i] # pipe.expanded[j]
    /\ MetaAt(pipe.expanded, "Checksum") # {}

\* The bytes of the lines that are not empty lines, each with its newline.
SerializedLines(lines) ==
    Flatten([i \in 1..Len(lines) |->
                IF lines[i].type = "emptyline" THEN <<>>
                ELSE ToString(lines[i]) \o <<"\n">>])

\* C8: a fully consumed output ends with its only Checksum line, whose value
\* is the digest of the serialisations of the output lines in front of it
\* that are not empty lines, in output order.
C8_ChecksumCoversOutput ==
    pc = "exhausted"
        => /\ out # <<>>
           /\ MetaAt(out, "Checksum") = {Len(out)}
           /\ Last(out).text = ChecksumValue(SerializedLines(Front(out)))
           /\ MetaAt(Front(out), "Version") # {}

\* C8 witness: the output holds an empty line, and deduplication removed a
\* line of the document.
C8_Witness ==
    /\ pc = "exhausted"
    /\ \E i \in 1..Len(out) : out[i].type = "emptyline"
    /\ Len(out) < Len(pipe.expanded) + 2

\* The reference expansion of a fragment's lines: every line that is not an
\* include as it is, every include of T as the comment "*** T ***" followed
\* by the expansion of T's lines.  path lists the fragments (source, name in
\* source) being expanded; ok says that every line parsed, every include
\* resolved and no fragment was reached from inside itself.
RECURSIVE RefExpand(_, _, _, _)
RefExpand(lines, default_source, path, sources) ==
    IF lines = <<>> THEN [ok |-> TRUE, lines |-> <<>>]
    ELSE
    LET l == Head(lines)
        g == GetAndParseFragment(l.target, sources, default_source, <<>>, store)
        inner == RefExpand(g.lines, g.inherited, path \o g.got, sources)
        rest == RefExpand(Tail(lines), default_source, path, sources)
        failed == [ok |-> FALSE, lines |-> <<>>]
    IN CASE l.type = "bad" -> failed
         [] l.type = "include" ->
              IF g.exc.type # "none" THEN failed
              ELSE IF Contains(path, g.got[1]) THEN failed
              ELSE IF ~inner.ok \/ ~rest.ok THEN failed
              ELSE [ok |-> TRUE,
                    lines |-> <<Comment(<<"*** ">> \o l.target \o <<" ***">>)>>
                              \o inner.lines \o rest.lines]
         [] OTHER ->
              IF ~rest.ok THEN failed
              ELSE [ok |-> TRUE, lines |-> <<l>> \o rest.lines]

RefTop ==
    RefExpand(TopFragment.lines, TopFragment.inherited, TopFragment.got,
              call.sources)

\* C9 as stated: when the fragments include one another without a cycle and
\* every include resolves, include expansion does not fail and yields the
\* reference expansion, in which no include line is left.
C9_AcyclicExpands ==
    (pc # "idle" /\ TopFragment.exc.type = "none" /\ RefTop.ok)
        => /\ err.type \notin {"IncludeError", "ParseError", "NotFound"}
           /\ IsPrefix(pipe.expanded, RefTop.lines)
           /\ pc = "exhausted" => pipe.expanded = RefTop.lines
           /\ \A i \in 1..Len(pipe.expanded) : pipe.expanded[i].type # "include"

\* What the render of "main" delivers when the version is stamped at tv and
\* the timestamp at tc, in front of the Checksum line.
ScenarioLines(tv, tc) ==
    <<Header,
      Metadata("Version", StrfVersion(tv)),
      Comment(<<"*** ", "ads", " ***">>),
      Comment(StrfTimestamp(tc)),
      Metadata("Foo", <<"1">>)>>

\* C10: with source "default" holding main = [header, include ads] and
\* ads = [comment %timestamp%, metadata Foo=1], the render of main delivers
\* the header, the Version line, the comment "*** ads ***", the comment with
\* the timestamp, Foo=1 and a closing Checksum line, in this order, and does
\* not fail.
C10_Scenario ==
    (store = ScenarioStore /\ call = ScenarioCall)
        => /\ pc # "failed"
           /\ \E tv, tc \in 0..MaxClock :
                 \/ IsPrefix(out, ScenarioLines(tv, tc))
                 \/ /\ Len(out) = 6
                    /\ Front(out) = ScenarioLines(tv, tc)
                    /\ IsChecksum(out[6])
           /\ pc = "exhausted" => Len(out) = 6

\* C10 witness: the render of main was consumed to its end.
C10_Witness ==
    /\ store = ScenarioStore
    /\ call = ScenarioCall
    /\ pc = "exhausted"
    /\ Len(out) = 6

\* C11: at one clock reading, a render called with the name and the sources
\* of an earlier render delivers the same lines, the Checksum line included,
\* and raises the same failure, whatever renders ran before and in between;
\* the default include stack of the resolver is left as it was created.
C11_SameRenderSameOutput ==
    /\ default_include_stack = DefaultIncludeStack
    /\ (first_render # NoRender /\ call = first_render.call)
          => /\ IsPrefix(out, first_render.out)
             /\ pc = "exhausted"
                   => out = first_render.out /\ first_render.err = NoExc
             /\ pc = "failed"
                   => out = first_render.out /\ err = first_render.err

\* C11 witness: a render was consumed to its Checksum line after a
\* remembered render of the same name and sources had been.
C11_Witness ==
    /\ first_render # NoRender
    /\ call = first_render.call
    /\ pc = "exhausted"
    /\ Len(out) >= 5
    /\ IsChecksum(Last(out))

\* The next line _process_includes reads is an include of a name that is not
\* on the reading activation's include stack, and nothing is buffered in
\* front of it.
PendingInclude ==
    LET fr == ActiveFrames(pipe.frames)
    IN /\ pc = "open" /\ valbuf = <<>> /\ pipe.vbuf = <<>> /\ ~done
       /\ fr # <<>>
       /\ Head(Last(fr).lines).type = "include"
       /\ ~Contains(Last(fr).include_stack, Head(Last(fr).lines).target)

\* The activation that reads next, and the name it is about to include.
ReadingFrame == Last(ActiveFrames(pipe.frames))

PendingTarget == Head(ReadingFrame.lines).target

\* The consumer's next() that makes _process_includes read its next line.
ReadsOn == pc' # "stopped" /\ now' = now

UnknownQualifier(name, sources) ==
    HasColon(name) /\ SplitName(name)[1] \notin DOMAIN sources

\* An IncludeError that says the source S is unknown.
UnknownSourceFailure(e, S, stack) ==
    /\ e.type = "IncludeError"
    /\ e.error = UnknownSourceMsg(S)
    /\ e.stack = stack
    /\ IsSubSeq(<<"Unknown source: ">> \o Quoted(S), e.str)

\* An IncludeError that says the name has no source.
SourceAbsentFailure(e, name, stack) ==
    /\ e.type = "IncludeError"
    /\ e.error = SourceAbsentMsg(name)
    /\ e.stack = stack
    /\ IsSubSeq(SourceAbsentMsg(name), e.str)

\* C12: resolving a name 'S:N' whose qualifier S is not a key of sources
\* fails with an IncludeError that names S as the unknown source, for the
\* top-level name and for an include target alike, and asks no source for a
\* fragment; resolving an unqualified name with no default source in effect
\* fails with an IncludeError that says the source name is absent.
C12_UnknownSourceFails ==
    [][/\ (pc = "idle" /\ pc' # "idle"
             /\ UnknownQualifier(call'.name, call'.sources))
          => /\ pc' = "failed"
             /\ UnknownSourceFailure(err', SplitName(call'.name)[1], <<>>)
             /\ pipe'.fetched = <<>>
       /\ (pc = "idle" /\ pc' # "idle"
             /\ ~HasColon(call'.name) /\ call'.top_source = None)
          => /\ pc' = "failed"
             /\ SourceAbsentFailure(err', call'.name, <<>>)
             /\ pipe'.fetched = <<>>
       /\ (PendingInclude /\ ReadsOn
             /\ UnknownQualifier(PendingTarget, call.sources))
          => /\ pc' = "failed"
             /\ UnknownSourceFailure(err', SplitName(PendingTarget)[1],
                                     ReadingFrame.include_stack \o <<PendingTarget>>)
             /\ pipe'.fetched = pipe.fetched
             /\ out' = out
       /\ (PendingInclude /\ ReadsOn
             /\ ~HasColon(PendingTarget) /\ ReadingFrame.default_source = None)
          => /\ pc' = "failed"
             /\ SourceAbsentFailure(err', PendingTarget,
                                    ReadingFrame.include_stack \o <<PendingTarget>>)
             /\ pipe'.fetched = pipe.fetched
             /\ out' = out
      ]_vars

\* C12 witness: an include of 'x:b' inside an included fragment failed, x
\* being no key of sources, after lines had been delivered.
C12_Witness ==
    /\ pc = "failed"
    /\ err.error = UnknownSourceMsg(<<"x">>)
    /\ Len(err.stack) >= 2
    /\ Last(err.stack) = NameXB
    /\ out # <<>>

CountOf(x, s) == Cardinality({i \in 1..Len(s) : s[i] = x})

\* The names of the stack, innermost first: 'T' from 'parent' ... from 'top'.
Trail(stack) ==
    Flatten([i \in 1..Len(stack) |->
                (IF i > 1 THEN <<" from ">> ELSE <<>>)
                \o <<"'">> \o stack[Len(stack) + 1 - i] \o <<"'">>])

\* An IncludeError that wraps the failure raw once and carries the stack.
WrappedOnce(e, raw, stack) ==
    /\ e.type = "IncludeError"
    /\ e.error = raw.str
    /\ e.stack = stack
    /\ stack[1] = call'.name
    /\ e.str = raw.str \o <<" when including ">> \o Trail(stack)
    /\ CountOf(" when including ", e.str) = 1

\* What resolving the pending include finds.
PendingResolved ==
    GetAndParseFragment(PendingTarget, call.sources,
                        ReadingFrame.default_source, <<>>, store)

\* The next line an included fragment's activation reads does not parse.
PendingBadLine ==
    LET fr == ActiveFrames(pipe.frames)
    IN /\ pc = "open" /\ valbuf = <<>> /\ pipe.vbuf = <<>> /\ ~done
       /\ Len(fr) >= 2
       /\ Head(Last(fr).lines).type = "bad"

\* The first line of the top-level fragment includes another name.
TopIncludes(c) ==
    LET g == GetAndParseFragment(c.name, c.sources, c.top_source,
                                 DefaultIncludeStack, store)
    IN /\ g.exc.type = "none" /\ g.lines # <<>>
       /\ Head(g.lines).type = "include" /\ Head(g.lines).target # c.name

TopIncludeResolved(c) ==
    LET g == GetAndParseFragment(c.name, c.sources, c.top_source,
                                 DefaultIncludeStack, store)
    IN GetAndParseFragment(Head(g.lines).target, c.sources, g.inherited,
                           <<>>, store)

C13_WitnessParse ==
    /\ pc = "failed"
    /\ err.type = "IncludeError"
    /\ err.error = ParseError(BadLine).str
    /\ err.stack = <<NameA, NameTB, NameSB>>

\* The source the fragment named last on the stack was fetched from, worked
\* out from the call and the names alone: the source its qualifier names,
\* or else the top source for the top-level name, or else the source of the
\* enclosing fragment if that one is inheritable, and no source otherwise.
RECURSIVE SourceOfFragment(_, _)
SourceOfFragment(stack, c) ==
    LET name == Last(stack)
        above == SourceOfFragment(Front(stack), c)
    IN IF HasColon(name) THEN c.sources[SplitName(name)[1]]
       ELSE IF Len(stack) = 1 THEN c.top_source
       ELSE IF above.is_inheritable THEN above ELSE None

\* Every activation's default source is the source its fragment was fetched
\* from if that source is inheritable, and no source otherwise.
FramesInherit ==
    \A i \in 1..Len(pipe.frames) :
        LET src == SourceOfFragment(pipe.frames[i].include_stack, call)
        IN pipe.frames[i].default_source
              = IF src.is_inheritable THEN src ELSE None

\* C14: an unqualified include found in a fragment F is looked up in the
\* source F was fetched from if that source is inheritable; if it is not,
\* the include fails with an IncludeError (source name absent) and no
\* lookup, also when the top source or the source of an enclosing fragment
\* is inheritable.
C14_DefaultSourceScoped ==
    [][/\ FramesInherit'
       /\ (PendingInclude /\ ReadsOn /\ ~HasColon(PendingTarget))
          => LET src == SourceOfFragment(ReadingFrame.include_stack, call)
             IN IF src.is_inheritable
                THEN pipe'.fetched
                        = pipe.fetched \o <<<<src.id, PendingTarget>>>>
                ELSE /\ pc' = "failed"
                     /\ SourceAbsentFailure(err', PendingTarget,
                                            ReadingFrame.include_stack
                                               \o <<PendingTarget>>)
                     /\ pipe'.fetched = pipe.fetched
      ]_vars

\* C14 witness: the top source s is inheritable, the top-level fragment
\* includes 't:b' of the source t that is not, and the include of 'b' found
\* there failed for want of a source.
C14_Witness ==
    /\ pc = "failed"
    /\ call.top_source = SrcS
    /\ ~call.sources[<<"t">>].is_inheritable
    /\ err.error = SourceAbsentMsg(NameB)
    /\ err.stack = <<NameA, NameTB, NameB>>

\* The include lines of the fragments looked up so far, each fragment
\* counted as often as it was looked up.
RECURSIVE IncludeLinesIn(_)
IncludeLinesIn(fetched) ==
    IF fetched = <<>> THEN 0
    ELSE (IF Head(fetched) \in DOMAIN store
          THEN Cardinality(IncludesAt(store[Head(fetched)].lines))
          ELSE 0)
         + IncludeLinesIn(Tail(fetched))

\* An include line of a fragment that was fetched has not been fetched
\* itself: every include that is expanded adds one lookup to the one of the
\* top-level fragment.
IncludeLeft == IncludeLinesIn(pipe.fetched) > Len(pipe.fetched) - 1

\* C15 as stated: when MissingHeader is raised, no include line of the
\* document is left that has not been fetched and expanded.
C15_HeaderCheckedLast ==
    (pc = "failed" /\ err = MissingHeader) => ~IncludeLeft

\* C15 amended: MissingHeader is raised by the call of render_filterlist and
\* nowhere else, as soon as the first line of the document has come through
\* include expansion and the transforms and is no header: one line has been
\* expanded, the only lookups made are the one of the top-level fragment and
\* the one of an include that is its first line, no line has been delivered;
\* a call that returns holds a header as first line.
C15_HeaderCheckedFirst ==
    [][/\ (pc' = "failed" /\ err' = MissingHeader)
          => /\ pc = "idle"
             /\ out' = <<>>
             /\ Len(pipe'.expanded) = 1
             /\ pipe'.expanded[1].type # "header"
             /\ Len(pipe'.fetched)
                   = IF Head(TopFragment'.lines).type = "include" THEN 2 ELSE 1
       /\ (pc = "idle" /\ pc' = "open")
          => /\ valbuf' = <<Header>>
             /\ Len(pipe'.expanded) = 1
      ]_vars

\* C15 witness: MissingHeader was raised on the boundary comment of the
\* include that is the first line, while an include line of the included
\* fragment had not been fetched.
C15_Witness ==
    /\ pc = "failed"
    /\ err = MissingHeader
    /\ Len(pipe.fetched) = 2
    /\ IncludeLeft

\* The comment _process_includes puts in front of an included fragment.
IsBoundary(line) ==
    /\ line.type = "comment"
    /\ Len(line.text) >= 2
    /\ line.text[1] = "*** "

BoundariesIn(lines) == {i \in 1..Len(lines) : IsBoundary(lines[i])}

\* With k lines delivered and the iterator in the consumer's hands, the
\* stages have read the document as far as the line the k-th delivered line
\* comes from and no further: behind the header and the Version line only
\* the first line has been read; after that the last line read is the one
\* the last delivered line was made of; and the lookups made are the one of
\* the top-level fragment and one for every include read so far, each of
\* which has its comment in the output.
ReadAsFarAsDelivered ==
    (pc \in {"open", "stopped"} /\ ~done)
        => /\ err = NoExc
           /\ Len(out) <= 2
                 => Len(pipe.expanded) = 1 /\ Len(pipe.fetched) = 1
           /\ Len(out) >= 3
                 => \E t \in 0..MaxClock :
                       Last(out) = ProcessTimestamp(Last(pipe.expanded), t)
           /\ Len(pipe.fetched) = 1 + Cardinality(BoundariesIn(pipe.expanded))
           /\ Len(out) >= 2
                 => Cardinality(BoundariesIn(out))
                       = Cardinality(BoundariesIn(pipe.expanded))

\* C16: a fragment named by an include line is fetched only by the call of
\* render_filterlist, for the first line, or by a next() of the consumer
\* that has to read up to that include line, one lookup per next() at most;
\* a consumer that has received k lines and stops leaves every include line
\* behind the origin of the k-th line unfetched, and no failure is raised.
C16_DemandDriven ==
    [][/\ ReadAsFarAsDelivered'
       /\ pipe'.fetched # pipe.fetched
          => \/ pc = "idle"
             \/ /\ pc = "open" /\ valbuf = <<>> /\ pipe.vbuf = <<>>
                /\ Len(pipe'.fetched) = Len(pipe.fetched) + 1
                /\ Len(out') = Len(out) + 1 \/ pc' = "failed"
       /\ pc' = "stopped" => err' = NoExc /\ pipe'.fetched = pipe.fetched
      ]_vars

\* C16 witness: the consumer stopped after three lines or more, and the next
\* line of the document is an include that would fail with an include loop.
C16_Witness ==
    LET fr == ActiveFrames(pipe.frames)
    IN /\ pc = "stopped"
       /\ Len(out) >= 3
       /\ fr # <<>>
       /\ Head(Last(fr).lines).type = "include"
       /\ Contains(Last(fr).include_stack, Head(Last(fr).lines).target)

\* C17: the lines delivered hold a Version line in second place, behind the
\* header, and nowhere else; its value is the clock reading the render
\* stamped, and no Version line of the top-level fragment or of an included
\* fragment is delivered.
C17_OneVersionSecond ==
    /\ MetaAt(out, "Version") \subseteq {2}
    /\ Len(out) >= 2
          => /\ out[1] = Header
             /\ \E t \in 0..now : out[2] = Metadata("Version", StrfVersion(t))
    /\ \A i \in 1..Len(out) :
          \A j \in MetaAt(pipe.expanded, "Version") : out[i] # pipe.expanded[j]

\* C17 witness: a complete output of a document whose top-level fragment and
\* whose included fragment both held a Version line.
C17_Witness ==
    /\ pc = "exhausted"
    /\ \E i, j \in MetaAt(pipe.expanded, "Version") :
          /\ i < j
          /\ \E b \in BoundariesIn(pipe.expanded) : i < b /\ b < j

\* The names that are targets of include lines in the fragments the sources
\* hold.
IncludeTargets ==
    UNION {{store[k].lines[i].target : i \in IncludesAt(store[k].lines)} :
             k \in DOMAIN store}

\* C18: a render whose consumer reads on comes to an end, by exhausting the
\* output or by a failure, whatever the fragments are, cyclic and
\* self-including ones among them; there are never more activations of
\* _process_includes nested in one another than the number of distinct
\* include targets plus one.
C18_Terminates ==
    /\ [](Len(pipe.frames) <= Cardinality(IncludeTargets) + 1)
    /\ (pc = "open") ~> (pc \in {"exhausted", "failed", "stopped"})

\* C18 witness: the render of a top-level fragment that includes a fragment
\* which includes itself came to its end, with a failure, after lines had
\* been delivered.
C18_Witness ==
    /\ pc = "failed"
    /\ err.error = LoopMsg
    /\ err.stack = <<NameA, NameB, NameB>>
    /\ Len(out) >= 3

IsSuffix(s, t) ==
    Len(s) <= Len(t) /\ SubSeq(t, Len(t) - Len(s) + 1, Len(t)) = s

\* The fragment (source, name in source) an activation with this include
\* stack reads.
FragmentOf(stack) ==
    <<SourceOfFragment(stack, call).id,
      IF HasColon(Last(stack)) THEN SplitName(Last(stack))[2] ELSE Last(stack)>>

\* The fragments that are being expanded, one inside the other.
FragmentsOpen ==
    {FragmentOf(ActiveFrames(pipe.frames)[i].include_stack) :
        i \in 1..Len(ActiveFrames(pipe.frames))}

\* The next line _process_includes reads is an include, and nothing is
\* buffered in front of it.
PendingAnyInclude ==
    LET fr == ActiveFrames(pipe.frames)
    IN /\ pc = "open" /\ valbuf = <<>> /\ pipe.vbuf = <<>> /\ ~done
       /\ fr # <<>>
       /\ Head(Last(fr).lines).type = "include"

\* C19 as stated: an activation that reads on after an include has been
\* expanded has the include stack and the default source it had before, and
\* an include of a fragment that was expanded earlier in the render, as a
\* sibling or under another parent, and that is not being expanded now, is
\* fetched and expanded again and is no include loop.
C19_SameFragmentExpandsAgain ==
    [][/\ \A i \in 1..Len(pipe.frames) :
             (/\ i <= Len(pipe'.frames)
              /\ pipe.frames[i].lines # <<>>
              /\ IsSuffix(pipe'.frames[i].lines, pipe.frames[i].lines))
                => /\ pipe'.frames[i].include_stack = pipe.frames[i].include_stack
                   /\ pipe'.frames[i].default_source
                         = pipe.frames[i].default_source
       /\ (/\ PendingAnyInclude /\ ReadsOn
           /\ PendingResolved.exc.type = "none"
           /\ Contains(pipe.fetched, PendingResolved.got[1])
           /\ PendingResolved.got[1] \notin FragmentsOpen)
          => /\ pc' = "open"
             /\ pipe'.fetched = pipe.fetched \o PendingResolved.got
             /\ pipe'.expanded
                   = pipe.expanded \o <<Comment(<<"*** ">> \o PendingTarget
                                                 \o <<" ***">>)>>
      ]_vars

\* C19 as far as the code goes: an activation of _process_includes that
\* reads on after an include has been expanded has the include stack and
\* the default source it had before; an include of a fragment that was
\* fetched and expanded earlier in the render, as a sibling or under another
\* parent, is fetched and expanded again and is no include loop if its name
\* (not its fragment) is none of those on the activation's include stack.
C19_ContextRestored ==
    [][/\ \A i \in 1..Len(pipe.frames) :
             (/\ i <= Len(pipe'.frames)
              /\ pipe.frames[i].lines # <<>>
              /\ IsSuffix(pipe'.frames[i].lines, pipe.frames[i].lines))
                => /\ pipe'.frames[i].include_stack = pipe.frames[i].include_stack
                   /\ pipe'.frames[i].default_source
                         = pipe.frames[i].default_source
       /\ (/\ PendingInclude /\ ReadsOn
           /\ PendingResolved.exc.type = "none"
           /\ Contains(pipe.fetched, PendingResolved.got[1]))
          => /\ pc' = "open"
             /\ pipe'.fetched = pipe.fetched \o PendingResolved.got
             /\ pipe'.expanded
                   = pipe.expanded \o <<Comment(<<"*** ">> \o PendingTarget
                                                 \o <<" ***">>)>>
             /\ Last(pipe'.frames).include_stack
                   = ReadingFrame.include_stack \o <<PendingTarget>>
             /\ pipe'.frames[Len(pipe'.frames) - 1].include_stack
                   = ReadingFrame.include_stack
      ]_vars

\* The top-level fragment included "b" twice, one include after the other,
\* and the output came to its end.
C19_Witness ==
    /\ pc = "exhausted"
    /\ \E i, j \in BoundariesIn(pipe.expanded) :
          /\ i < j
          /\ pipe.expanded[i] = pipe.expanded[j]
          /\ pipe.expanded[i].text = <<"*** ">> \o NameB \o <<" ***">>

====
